---- MODULE Spec2Model ----
(***************************************************************************)
(* Model of generate_test_payload.py: four generators, each building a     *)
(* fixed bytearray and writing it with open(name, 'wb'), called in turn by  *)
(* main().  The file system is a map from file names to (exists, data);    *)
(* open and the flush at close may fail with an OSError, which nothing in   *)
(* the script catches.                                                      *)
(***************************************************************************)
EXTENDS Integers, Sequences, FiniteSets, TLC

VARIABLES fs, dirWritable, pc, at, payload, exc, stdout, trace, fs0, prevOk, runs

vars == <<fs, dirWritable, pc, at, payload, exc, stdout, trace, fs0, prevOk, runs>>

(* ------------------------------- bounds -------------------------------- *)

\* number of times main is started in one behaviour
MaxRuns == 2

\* length of the content a file may hold before the first run
MaxJunk == 30

(* --------------------------- bytearray helpers -------------------------- *)

\* bytearray()
bytearray == << >>

\* payload.extend([...])
extend(p, bytes) == p \o bytes

\* payload.append(b)
append(p, b) == Append(p, b)

(* ------------------------------ payloads -------------------------------- *)

\* x86_payload with the nop left out
x86_payload_no_nop ==
    LET p1 == extend(bytearray, <<\hB8, \h01, \h00, \h00, \h00>>)
        p2 == extend(p1, <<\h05, \h64, \h00, \h00, \h00>>)
        p6 == append(append(append(append(p2, \h40), \h48), \h50), \h58)
    IN  extend(p6, <<\hEB, \hF0>>)

\* generate_x86_payload, the bytearray built before the file is opened
x86_payload ==
    LET p0 == bytearray
        p1 == extend(p0, <<\hB8, \h01, \h00, \h00, \h00>>)   \* mov eax, 1
        p2 == extend(p1, <<\h05, \h64, \h00, \h00, \h00>>)   \* add eax, 100
        p3 == append(p2, \h40)                               \* inc eax
        p4 == append(p3, \h48)                               \* dec eax
        p5 == append(p4, \h50)                               \* push eax
        p6 == append(p5, \h58)                               \* pop eax
        p7 == append(p6, \h90)                               \* nop
        p8 == extend(p7, <<\hEB, \hF0>>)                     \* jmp short
    IN  p8

\* arm_payload with the branch word written most significant byte first
arm_payload_big_endian ==
    LET p1 == extend(bytearray, <<\h01, \h00, \hA0, \hE3>>)
        p2 == extend(p1, <<\h64, \h00, \h80, \hE2>>)
        p3 == extend(p2, <<\h32, \h00, \h50, \hE3>>)
    IN  extend(p3, <<\h1A, \hFF, \hFF, \hF9>>)

\* generate_arm_payload
arm_payload ==
    LET p0 == bytearray
        p1 == extend(p0, <<\h01, \h00, \hA0, \hE3>>)         \* mov r0, #1
        p2 == extend(p1, <<\h64, \h00, \h80, \hE2>>)         \* add r0, r0, #100
        p3 == extend(p2, <<\h32, \h00, \h50, \hE3>>)         \* cmp r0, #50
        p4 == extend(p3, <<\hF9, \hFF, \hFF, \h1A>>)         \* bne
    IN  p4

\* x64_payload with the add encoded without its REX.W prefix
x64_payload_no_rex ==
    LET p1 == extend(bytearray, <<\h48, \hC7, \hC0, \h01, \h00, \h00, \h00>>)
        p2 == extend(p1, <<\h05, \h64, \h00, \h00, \h00>>)
        p3 == extend(p2, <<\h48, \hFF, \hC0>>)
        p4 == extend(p3, <<\h48, \hFF, \hC8>>)
        p6 == append(append(p4, \h50), \h58)
    IN  extend(p6, <<\hEB, \hE9>>)

\* generate_x64_payload
x64_payload ==
    LET p0 == bytearray
        p1 == extend(p0, <<\h48, \hC7, \hC0, \h01, \h00, \h00, \h00>>) \* mov rax, 1
        p2 == extend(p1, <<\h48, \h05, \h64, \h00, \h00, \h00>>)       \* add rax, 100
        p3 == extend(p2, <<\h48, \hFF, \hC0>>)                         \* inc rax
        p4 == extend(p3, <<\h48, \hFF, \hC8>>)                         \* dec rax
        p5 == append(p4, \h50)                                         \* push rax
        p6 == append(p5, \h58)                                         \* pop rax
        p7 == extend(p6, <<\hEB, \hE9>>)                               \* jmp short
    IN  p7

\* simple_payload counting from zero
simple_payload_from_zero == <<\h00, \h01, \h02, \h03, \h04, \h05, \h06, \h07>>

\* generate_simple_payload
simple_payload == <<\h01, \h02, \h03, \h04, \h05, \h06, \h07, \h08>>

(* ----------------------------- file names ------------------------------- *)

x86_file == "x86_test.bin"

arm_file == "arm_test.bin"

\* x64_file with the name of the x86 file pasted in
x64_file_pasted == "x86_test.bin"

x64_file == "x64_test.bin"

simple_file == "test_payload.bin"

\* a file of the directory that the script never names
other_file == "other.bin"

Generators == {"x86", "arm", "x64", "simple"}

FileOf(g) ==
    CASE g = "x86"    -> x86_file
      [] g = "arm"    -> arm_file
      [] g = "x64"    -> x64_file
      [] g = "simple" -> simple_file

PayloadOf(g) ==
    CASE g = "x86"    -> x86_payload
      [] g = "arm"    -> arm_payload
      [] g = "x64"    -> x64_payload
      [] g = "simple" -> simple_payload

\* first print of each generator
StartMsg(g) ==
    CASE g = "x86"    -> "Generating x86 test payload..."
      [] g = "arm"    -> "Generating ARM test payload..."
      [] g = "x64"    -> "Generating x64 test payload..."
      [] g = "simple" -> "Generating simple test payload..."

\* last print of each generator, printed with len(payload)
EndMsg(g) ==
    CASE g = "x86"    -> "x86 payload generated"
      [] g = "arm"    -> "ARM payload generated"
      [] g = "x64"    -> "x64 payload generated"
      [] g = "simple" -> "Simple payload generated"

FileNames == {x86_file, arm_file, x64_file, simple_file, other_file}

(* ------------------------------ main order ------------------------------ *)

\* main_calls with the ARM and x64 calls exchanged
main_calls_swapped == <<"x86", "x64", "arm", "simple">>

\* the calls of main, in program order
main_calls == <<"x86", "arm", "x64", "simple">>

\* position of generator g in main (0 when main does not call it)
CallIndex(g) ==
    IF \E i \in 1..Len(main_calls) : main_calls[i] = g
    THEN CHOOSE i \in 1..Len(main_calls) : main_calls[i] = g
    ELSE 0

(* ------------------------------ file system ----------------------------- *)

Absent == [exists |-> FALSE, data |-> << >>]

File(d) == [exists |-> TRUE, data |-> d]

Junk(n) == [i \in 1..n |-> \hAA]

\* what a file of the directory may be before the first run
InitialFiles == {Absent, File(<< >>), File(Junk(MaxJunk))}

\* open_wb opening in append mode: an existing file keeps its content
open_ab(files, name) ==
    IF files[name].exists THEN files ELSE [files EXCEPT ![name] = File(<< >>)]

\* open(name, 'wb') succeeds: the file is created or truncated to length 0
open_wb(files, name) == [files EXCEPT ![name] = File(<< >>)]

\* open(name, 'wb') cannot succeed: a new file in a directory without write
\* permission
open_must_fail(files, name) == ~files[name].exists /\ ~dirWritable

\* write_close losing the buffer: nothing reaches the file
write_close_lost(files, name, p) == files

\* f.write(payload) followed by the close at the end of the with block:
\* the buffered bytes reach the file
write_close(files, name, p) == [files EXCEPT ![name] = File(files[name].data \o p)]

\* the flush at close fails (disk full, I/O error): some strict prefix of the
\* buffer has reached the file
write_fail(files, name, p, n) ==
    [files EXCEPT ![name] = File(files[name].data \o SubSeq(p, 1, n))]

(* -------------------------------- Init ---------------------------------- *)

Init ==
    /\ fs \in [FileNames -> InitialFiles]
    /\ dirWritable \in BOOLEAN
    /\ pc = "idle"
    /\ at = "none"
    /\ payload = << >>
    /\ exc = "none"
    /\ stdout = << >>
    /\ trace = << >>
    /\ fs0 = fs
    /\ prevOk = FALSE
    /\ runs = 0

(* ------------------------------- helpers -------------------------------- *)

\* print(...): one line on standard output, with the number it formats
\* (0 when the line formats none)
print(out, msg, n) == Append(out, <<msg, n>>)

Rule == "=================================================="

\* what main does after generator g returns
AfterCall(g) ==
    IF CallIndex(g) < Len(main_calls) THEN main_calls[CallIndex(g) + 1] ELSE "summary"

\* raise with the error swallowed: main goes on with the next call
raise_swallowed(g) ==
    /\ pc' = AfterCall(g)
    /\ at' = IF AfterCall(g) = "summary" THEN "none" ELSE "build"
    /\ exc' = exc
    /\ payload' = << >>

\* an uncaught OSError raised inside generator g leaves main
raise(g) ==
    /\ pc' = "failed"
    /\ at' = "none"
    /\ exc' = g
    /\ payload' = << >>

(* --------------------------- generator steps ---------------------------- *)

\* print("Generating ..."), then the bytearray is built
gen_build(g) ==
    /\ pc = g /\ at = "build"
    /\ stdout' = print(stdout, StartMsg(g), 0)
    /\ payload' = PayloadOf(g)
    /\ at' = "open"
    /\ UNCHANGED <<fs, dirWritable, pc, exc, trace, fs0, prevOk, runs>>

\* with open(name, 'wb') as f:
gen_open(g) ==
    /\ pc = g /\ at = "open"
    /\ ~open_must_fail(fs, FileOf(g))
    /\ fs' = open_wb(fs, FileOf(g))
    /\ trace' = Append(trace, <<"open", FileOf(g)>>)
    /\ at' = "write"
    /\ UNCHANGED <<dirWritable, pc, payload, exc, stdout, fs0, prevOk, runs>>

\* open raises (permission denied, read-only directory, ...)
gen_open_fail(g) ==
    /\ pc = g /\ at = "open"
    /\ raise(g)
    /\ trace' = Append(trace, <<"open failed", FileOf(g)>>)
    /\ UNCHANGED <<fs, dirWritable, stdout, fs0, prevOk, runs>>

\* f.write(payload) and the close at the end of the with block
gen_write(g) ==
    /\ pc = g /\ at = "write"
    /\ fs' = write_close(fs, FileOf(g), payload)
    /\ trace' = Append(trace, <<"close", FileOf(g)>>)
    /\ at' = "report"
    /\ UNCHANGED <<dirWritable, pc, payload, exc, stdout, fs0, prevOk, runs>>

\* the write raises; the with block still closes the file
gen_write_fail(g) ==
    /\ pc = g /\ at = "write"
    /\ \E n \in 0..(Len(payload) - 1) : fs' = write_fail(fs, FileOf(g), payload, n)
    /\ raise(g)
    /\ trace' = Append(trace, <<"write failed", FileOf(g)>>)
    /\ UNCHANGED <<dirWritable, stdout, fs0, prevOk, runs>>

\* print(f"... generated ({len(payload)} bytes)") and return to main
gen_report(g) ==
    /\ pc = g /\ at = "report"
    /\ stdout' = print(stdout, EndMsg(g), Len(payload))
    /\ payload' = << >>
    /\ pc' = AfterCall(g)
    /\ at' = IF AfterCall(g) = "summary" THEN "none" ELSE "build"
    /\ UNCHANGED <<fs, dirWritable, exc, trace, fs0, prevOk, runs>>

generate(g) ==
    \/ gen_build(g)
    \/ gen_open(g)
    \/ gen_open_fail(g)
    \/ gen_write(g)
    \/ gen_write_fail(g)
    \/ gen_report(g)

(* ------------------------------- actions -------------------------------- *)

\* the script is started: a new process, in the directory as it is now
main_start ==
    /\ pc \in {"idle", "done", "failed"}
    /\ runs < MaxRuns
    /\ runs' = runs + 1
    /\ prevOk' = (pc = "done")
    /\ fs0' = fs
    /\ pc' = "banner"
    /\ at' = "none"
    /\ exc' = "none"
    /\ payload' = << >>
    /\ stdout' = << >>
    /\ trace' = << >>
    /\ UNCHANGED <<fs, dirWritable>>

\* the three banner prints of main, then the first call
main_banner ==
    /\ pc = "banner"
    /\ stdout' = print(print(print(stdout, Rule, 0),
                             "MyOS VM System - Test Payload Generator", 0), Rule, 0)
    /\ pc' = main_calls[1]
    /\ at' = "build"
    /\ UNCHANGED <<fs, dirWritable, payload, exc, trace, fs0, prevOk, runs>>

generate_x86_payload == generate("x86")

generate_arm_payload == generate("arm")

generate_x64_payload == generate("x64")

generate_simple_payload == generate("simple")

\* the summary prints of main; the script exits with status 0
main_summary ==
    /\ pc = "summary"
    /\ stdout' = print(print(print(print(print(print(print(print(stdout,
                     Rule, 0),
                     "All test payloads generated successfully!", 0),
                     Rule, 0),
                     "Generated files:", 0),
                     "- x86_test.bin  (x86 architecture)", 0),
                     "- arm_test.bin  (ARM architecture)", 0),
                     "- x64_test.bin  (x64 architecture)", 0),
                     "- test_payload.bin (simple test)", 0)
    /\ pc' = "done"
    /\ UNCHANGED <<fs, dirWritable, at, payload, exc, trace, fs0, prevOk, runs>>

Next ==
    \/ main_start
    \/ main_banner
    \/ generate_x86_payload
    \/ generate_arm_payload
    \/ generate_x64_payload
    \/ generate_simple_payload
    \/ main_summary

Spec == Init /\ [][Next]_vars

(* ======================= properties of the script ======================= *)

\* generator g has returned to main, without an exception, in the current run
Returned(g) ==
    \/ pc \in {"summary", "done"}
    \/ pc \in Generators /\ CallIndex(g) < CallIndex(pc)
    \/ pc = "failed" /\ CallIndex(g) < CallIndex(exc)

\* a byte read as a signed 8-bit two's-complement integer
Signed8(b) == IF b >= 128 THEN b - 256 ELSE b

\* four bytes read as a little-endian 32-bit value
LE32(b) == b[1] + 256 * b[2] + 65536 * b[3] + 16777216 * b[4]

\* the low 24 bits of a word read as a signed two's-complement integer
Signed24(w) == LET u == w % 16777216 IN IF u >= 8388608 THEN u - 16777216 ELSE u

\* the instruction encodings, byte by byte
Enc_x86 == << <<184, 1, 0, 0, 0>>, <<5, 100, 0, 0, 0>>, <<64>>, <<72>>, <<80>>, <<88>>,
              <<144>>, <<235, 240>> >>

Enc_x64 == << <<72, 199, 192, 1, 0, 0, 0>>, <<72, 5, 100, 0, 0, 0>>, <<72, 255, 192>>,
              <<72, 255, 200>>, <<80>>, <<88>>, <<235, 233>> >>

Enc_arm == << <<1, 0, 160, 227>>, <<100, 0, 128, 226>>, <<50, 0, 80, 227>>,
              <<249, 255, 255, 26>> >>

RECURSIVE Concat(_)
Concat(ss) == IF ss = << >> THEN << >> ELSE Head(ss) \o Concat(Tail(ss))

\* what each of the four files holds once written, by file name
Written(name) ==
    CASE name = "x86_test.bin"     -> Concat(Enc_x86)
      [] name = "arm_test.bin"     -> Concat(Enc_arm)
      [] name = "x64_test.bin"     -> Concat(Enc_x64)
      [] name = "test_payload.bin" -> <<1, 2, 3, 4, 5, 6, 7, 8>>

\* the four file names in the order main writes them
Targets == <<"x86_test.bin", "arm_test.bin", "x64_test.bin", "test_payload.bin">>

TargetSet == {Targets[i] : i \in 1..4}

RECURSIVE SumSizes(_, _)
SumSizes(files, names) ==
    IF names = {} THEN 0
    ELSE LET f == CHOOSE x \in names : TRUE
         IN  Len(files[f].data) + SumSizes(files, names \ {f})

(* ---------------------------------- C1 ---------------------------------- *)

\* C1 as stated: after generate_x86_payload has returned, x86_test.bin holds
\* exactly 23 bytes, the concatenation of the eight encodings in order.
C1_Original ==
    Returned("x86") =>
        /\ fs["x86_test.bin"].exists
        /\ fs["x86_test.bin"].data = Concat(Enc_x86)
        /\ Len(fs["x86_test.bin"].data) = 23

\* C1 amended: after generate_x86_payload has returned, x86_test.bin holds
\* exactly 17 bytes, the concatenation in order of the encodings of load
\* immediate, add immediate, increment, decrement, push, pop, no-op and the
\* short backward jump.
C1_X86File ==
    Returned("x86") =>
        /\ fs["x86_test.bin"].exists
        /\ fs["x86_test.bin"].data = Concat(Enc_x86)
        /\ Len(fs["x86_test.bin"].data) = 17

C1_Witness ==
    /\ pc = "arm" /\ at = "build"
    /\ fs0["x86_test.bin"] = File(Junk(MaxJunk))
    /\ Len(fs["x86_test.bin"].data) = 17

(* ---------------------------------- C2 ---------------------------------- *)

\* C2 as stated: after generate_x64_payload has returned, x64_test.bin holds
\* exactly 26 bytes, the concatenation of the seven encodings in order.
C2_Original ==
    Returned("x64") =>
        /\ fs["x64_test.bin"].exists
        /\ fs["x64_test.bin"].data = Concat(Enc_x64)
        /\ Len(fs["x64_test.bin"].data) = 26

\* C2 amended: after generate_x64_payload has returned, x64_test.bin holds
\* exactly 23 bytes, the concatenation in order of the encodings of move
\* immediate, add immediate, increment, decrement, push, pop and the short jump.
C2_X64File ==
    Returned("x64") =>
        /\ fs["x64_test.bin"].exists
        /\ fs["x64_test.bin"].data = Concat(Enc_x64)
        /\ Len(fs["x64_test.bin"].data) = 23

C2_Witness ==
    /\ pc = "simple" /\ at = "build"
    /\ ~fs0["x64_test.bin"].exists
    /\ Len(fs["x64_test.bin"].data) = 23

(* ---------------------------------- C3 ---------------------------------- *)

\* C3: after generate_arm_payload has returned, arm_test.bin holds exactly 16
\* bytes, four 4-byte groups in the order move immediate, add immediate,
\* compare immediate, branch-not-equal, and the last group read as a
\* little-endian 32-bit value has a negative signed 24-bit displacement in its
\* low three bytes.
C3_ArmFile ==
    Returned("arm") =>
        LET d == fs["arm_test.bin"].data
        IN  /\ fs["arm_test.bin"].exists
            /\ Len(d) = 16
            /\ \A i \in 1..4 : SubSeq(d, 4 * i - 3, 4 * i) = Enc_arm[i]
            /\ LE32(SubSeq(d, 13, 16)) \div 16777216 = 26
            /\ Signed24(LE32(SubSeq(d, 13, 16))) < 0

C3_Witness ==
    /\ pc = "x64" /\ at = "build"
    /\ fs["arm_test.bin"].exists
    /\ Signed24(LE32(SubSeq(fs["arm_test.bin"].data, 13, 16))) = -7

(* ---------------------------------- C4 ---------------------------------- *)

\* C4: after generate_simple_payload has returned, test_payload.bin holds
\* exactly the bytes 01 02 03 04 05 06 07 08, whatever it held before the run.
C4_SimpleFile ==
    Returned("simple") => fs["test_payload.bin"] = File(<<1, 2, 3, 4, 5, 6, 7, 8>>)

C4_Witness ==
    /\ pc = "summary"
    /\ fs0["test_payload.bin"] = File(Junk(MaxJunk))
    /\ fs["test_payload.bin"].data = <<1, 2, 3, 4, 5, 6, 7, 8>>

(* ---------------------------------- C5 ---------------------------------- *)

\* main has run to completion from an empty writable directory
FromEmptyDir == pc = "done" /\ dirWritable /\ \A f \in FileNames : ~fs0[f].exists

\* C5 as stated: after main has run to completion from an empty writable
\* directory, exactly the four named files exist and their sizes sum to 73.
C5_Original ==
    FromEmptyDir =>
        /\ {f \in FileNames : fs[f].exists} = TargetSet
        /\ SumSizes(fs, TargetSet) = 73

\* C5 amended: after main has run to completion from an empty writable
\* directory, exactly the four named files exist and their sizes sum to 64
\* (17 + 16 + 23 + 8).
C5_FourFiles ==
    FromEmptyDir =>
        /\ {f \in FileNames : fs[f].exists} = TargetSet
        /\ Cardinality(TargetSet) = 4
        /\ SumSizes(fs, TargetSet) = 64

C5_Witness == FromEmptyDir /\ runs = 1 /\ SumSizes(fs, TargetSet) = 64

(* ---------------------------------- C6 ---------------------------------- *)

\* C6: main is idempotent on the four files: when a run of main completes
\* right after another completed run, each of the four files is, byte for
\* byte, what it was after the earlier run.
C6_Idempotent ==
    (pc = "done" /\ prevOk) => \A f \in TargetSet : fs[f] = fs0[f]

C6_Witness ==
    /\ pc = "done" /\ prevOk /\ runs = 2
    /\ Len(stdout) = 19
    /\ \A f \in TargetSet : fs[f].exists /\ fs[f] = fs0[f]

(* ---------------------------------- C7 ---------------------------------- *)

\* the opens and closes of a run in which every write succeeds
FullTrace ==
    << <<"open", "x86_test.bin">>,     <<"close", "x86_test.bin">>,
       <<"open", "arm_test.bin">>,     <<"close", "arm_test.bin">>,
       <<"open", "x64_test.bin">>,     <<"close", "x64_test.bin">>,
       <<"open", "test_payload.bin">>, <<"close", "test_payload.bin">> >>

IsFailure(e) == e[1] \in {"open failed", "write failed"}

\* the opens and closes of the current run, without the failure that ended it
Completed(t) == IF t # << >> /\ IsFailure(t[Len(t)]) THEN SubSeq(t, 1, Len(t) - 1) ELSE t

\* C7: in every run of main the files are written in the order x86_test.bin,
\* arm_test.bin, x64_test.bin, test_payload.bin; a file is closed, holding its
\* full payload, before the next one is opened; and a run in which every write
\* succeeds opens and closes all four, each once.
C7_Order ==
    LET t == Completed(trace)
    IN  /\ Len(t) <= Len(FullTrace)
        /\ t = SubSeq(FullTrace, 1, Len(t))
        /\ \A i \in 1..Len(t) : t[i][1] = "close" => fs[t[i][2]] = File(Written(t[i][2]))
        /\ pc \in {"summary", "done"} => trace = FullTrace

C7_Witness ==
    /\ pc = "simple" /\ at = "write"
    /\ Len(trace) = 7
    /\ fs["test_payload.bin"] = File(<< >>)
    /\ fs["x64_test.bin"] = File(Written("x64_test.bin"))

(* ---------------------------------- C8 ---------------------------------- *)

\* position of a file name in Targets
TargetIndex(name) == CHOOSE i \in 1..4 : Targets[i] = name

\* the events of trace t that name file f
EventsOn(t, f) == SelectSeq(t, LAMBDA e : e[2] = f)

\* C8: when the write of the k-th file fails, main stops with that failure:
\* the failure is the last event of the run, no later file has been created
\* or modified, every earlier file holds its full payload, the failing file
\* was opened at most once; and in a directory that is not writable and holds
\* none of the four files the run fails at the open of x86_test.bin and none
\* of the four files exists.
C8_FailureStops ==
    /\ \A i \in 1..Len(trace) :
          IsFailure(trace[i]) =>
             LET k == TargetIndex(trace[i][2])
             IN  /\ i = Len(trace)
                 /\ pc = "failed"
                 /\ exc = main_calls[k]
                 /\ \A j \in 1..4 : j > k => fs[Targets[j]] = fs0[Targets[j]]
                 /\ \A j \in 1..4 : j < k => fs[Targets[j]] = File(Written(Targets[j]))
                 /\ Len(EventsOn(trace, trace[i][2])) <= 2
                 /\ Len(trace) = IF trace[i][1] = "open failed" THEN 2 * k - 1 ELSE 2 * k
    /\ pc = "failed" => trace # << >> /\ IsFailure(trace[Len(trace)])
    /\ ( /\ runs > 0
         /\ ~dirWritable
         /\ \A f \in TargetSet : ~fs0[f].exists
         /\ ~(pc = "banner" \/ (pc = "x86" /\ at \in {"build", "open"})) )
       => /\ pc = "failed" /\ exc = "x86"
          /\ trace = << <<"open failed", "x86_test.bin">> >>
          /\ \A f \in TargetSet : ~fs[f].exists

C8_Witness ==
    /\ pc = "failed" /\ exc = "x64"
    /\ trace[Len(trace)] = <<"write failed", "x64_test.bin">>
    /\ Len(fs["x64_test.bin"].data) = 5
    /\ fs["x86_test.bin"] = File(Written("x86_test.bin"))
    /\ fs0["test_payload.bin"] = File(Junk(MaxJunk))
    /\ fs["test_payload.bin"] = fs0["test_payload.bin"]

(* ---------------------------------- C9 ---------------------------------- *)

\* C9: the four generators write to four pairwise distinct file names, and a
\* step of a generator changes no file but that generator's own.
C9_Frame ==
    [][ /\ Cardinality({FileOf(g) : g \in Generators}) = 4
        /\ \A g \in Generators :
              pc = g => \A f \in FileNames \ {FileOf(g)} : fs'[f] = fs[f] ]_vars

C9_Witness ==
    /\ pc = "x64" /\ at = "report"
    /\ fs["x64_test.bin"] = File(Written("x64_test.bin"))
    /\ fs["x86_test.bin"] = File(Written("x86_test.bin"))
    /\ fs["test_payload.bin"] = File(Junk(MaxJunk))
    /\ fs["other.bin"] = File(Junk(MaxJunk))
    /\ fs0 = [fs EXCEPT !["x64_test.bin"] = Absent, !["x86_test.bin"] = Absent,
                        !["arm_test.bin"] = Absent]

(* ---------------------------------- C10 --------------------------------- *)

\* C10: the last two bytes of the x86 payload are a short jump (opcode EB)
\* whose displacement byte, read as a signed 8-bit integer, is -12.
C10_JumpBack12 ==
    Returned("x86") =>
        LET d == fs["x86_test.bin"].data
        IN  /\ Len(d) >= 2
            /\ d[Len(d) - 1] = 235
            /\ Signed8(d[Len(d)]) = -12

====
